---- MODULE Spec2Model ----
(***************************************************************************)
(* Model of the management command auditlogmigratejson of django-auditlog: *)
(* the migration of LogEntry.changes_text (legacy JSON text) into          *)
(* LogEntry.changes (JSON column), by bulk_update in batches or by one     *)
(* native UPDATE statement.                                                *)
(***************************************************************************)
EXTENDS Integers, Sequences, FiniteSets, TLC

VARIABLES
    db,      \* db[w]: the rows of table auditlog_logentry of store w, in query order
    proc,    \* proc[p]: one invocation of the command (or of migrate_using_django)
    orm,     \* how this build's bulk_update persists a Python None in a JSON column
    db0      \* history: db as it was before the first invocation

vars == <<db, proc, orm, db0>>

(***************************************************************************)
(* Python / JSON values.  Every value is a record tagged by kind.  Python  *)
(* str values are sequences of characters (len and the substring test of   *)
(* `in` are computed on them); dict keys are kept as strings, dict items    *)
(* as a sequence in insertion order.                                       *)
(***************************************************************************)
SqlNull == [kind |-> "sqlnull"]
PyNone == [kind |-> "none"]
PyBool(b) == [kind |-> "bool", b |-> b]
PyInt(n) == [kind |-> "int", n |-> n]
PyStr(chars) == [kind |-> "str", s |-> chars]
PyList(items) == [kind |-> "list", items |-> items]
PyDict(items) == [kind |-> "dict", items |-> items]
Item(k, v) == [k |-> k, v |-> v]

Added == "Added"
Removed == "Removed"
AddedChars == <<"A", "d", "d", "e", "d">>
RemovedChars == <<"R", "e", "m", "o", "v", "e", "d">>
MarkerChars(marker) == IF marker = Added THEN AddedChars ELSE RemovedChars

Ok(v) == [ok |-> TRUE, v |-> v]
ValueError == [ok |-> FALSE, exc |-> "ValueError"]
TypeError == [ok |-> FALSE, exc |-> "TypeError"]
AttributeError == [ok |-> FALSE, exc |-> "AttributeError"]

(***************************************************************************)
(* The legacy texts of the model and what json.loads returns for each.     *)
(***************************************************************************)
T_plain == "{\"name\": [\"a\", \"b\"]}"
T_added == "{\"tags\": {\"Added\": [\"x\", \"y\"]}}"
T_removed == "{\"tags\": {\"Removed\": [\"x\"]}}"
T_both == "{\"tags\": {\"Removed\": [\"y\"], \"Added\": [\"x\"]}}"
T_neither == "{\"tags\": {\"x\": 1}}"
T_two == "{\"name\": [\"a\", \"b\"], \"tags\": {\"Added\": [\"x\"]}}"
T_added_first == "{\"tags\": {\"Added\": [\"x\"]}, \"name\": [\"a\", \"b\"]}"
T_removed_three == "{\"name\": \"a\", \"tags\": {\"Removed\": [\"x\"]}, \"age\": 1}"
T_empty_dict == "{}"
T_num_field == "{\"age\": 1}"
T_null_field == "{\"age\": null}"
T_str_field == "{\"name\": \"a\"}"
T_str_added == "{\"state\": \"Added\"}"
T_list_added == "{\"state\": [\"a\", \"Added\"]}"
T_int == "5"
T_list1 == "[1]"
T_list2 == "[1, 5]"
T_str1 == "\"a\""
T_null == "null"
T_true == "true"
T_invalid == "{not valid}"
T_truncated == "{\"name\": [\"a\", "

s_a == PyStr(<<"a">>)
s_b == PyStr(<<"b">>)
s_x == PyStr(<<"x">>)
s_y == PyStr(<<"y">>)

V_plain == PyDict(<<Item("name", PyList(<<s_a, s_b>>))>>)
V_two == PyDict(<<Item("name", PyList(<<s_a, s_b>>)),
                  Item("tags", PyDict(<<Item("Added", PyList(<<s_x>>))>>))>>)
V_added_first == PyDict(<<Item("tags", PyDict(<<Item("Added", PyList(<<s_x>>))>>)),
                          Item("name", PyList(<<s_a, s_b>>))>>)
V_removed_three == PyDict(<<Item("name", s_a),
                            Item("tags", PyDict(<<Item("Removed", PyList(<<s_x>>))>>)),
                            Item("age", PyInt(1))>>)

json_loads(s) ==
    CASE s = T_plain -> Ok(V_plain)
      [] s = T_added -> Ok(PyDict(<<Item("tags", PyDict(<<Item("Added", PyList(<<s_x, s_y>>))>>))>>))
      [] s = T_removed -> Ok(PyDict(<<Item("tags", PyDict(<<Item("Removed", PyList(<<s_x>>))>>))>>))
      [] s = T_both -> Ok(PyDict(<<Item("tags", PyDict(<<Item("Removed", PyList(<<s_y>>)),
                                                       Item("Added", PyList(<<s_x>>))>>))>>))
      [] s = T_neither -> Ok(PyDict(<<Item("tags", PyDict(<<Item("x", PyInt(1))>>))>>))
      [] s = T_two -> Ok(V_two)
      [] s = T_added_first -> Ok(V_added_first)
      [] s = T_removed_three -> Ok(V_removed_three)
      [] s = T_empty_dict -> Ok(PyDict(<<>>))
      [] s = T_num_field -> Ok(PyDict(<<Item("age", PyInt(1))>>))
      [] s = T_null_field -> Ok(PyDict(<<Item("age", PyNone)>>))
      [] s = T_str_field -> Ok(PyDict(<<Item("name", s_a)>>))
      [] s = T_str_added -> Ok(PyDict(<<Item("state", PyStr(AddedChars))>>))
      [] s = T_list_added -> Ok(PyDict(<<Item("state", PyList(<<s_a, PyStr(AddedChars)>>))>>))
      [] s = T_int -> Ok(PyInt(5))
      [] s = T_list1 -> Ok(PyList(<<PyInt(1)>>))
      [] s = T_list2 -> Ok(PyList(<<PyInt(1), PyInt(5)>>))
      [] s = T_str1 -> Ok(s_a)
      [] s = T_null -> Ok(PyNone)
      [] s = T_true -> Ok(PyBool(TRUE))
      [] OTHER -> ValueError

(***************************************************************************)
(* The Python operations lines 103-119 apply to the parsed value.          *)
(***************************************************************************)
Sized(v) == v.kind \in {"dict", "list", "str"}
len(v) == IF v.kind = "str" THEN Len(v.s) ELSE Len(v.items)

HasKey(d, k) == \E i \in 1..Len(d.items) : d.items[i].k = k
GetItem(d, k) == d.items[CHOOSE i \in 1..Len(d.items) : d.items[i].k = k].v

IsSubstring(sub, s) ==
    \E i \in 1..(Len(s) - Len(sub) + 1) : SubSeq(s, i, i + Len(sub) - 1) = sub

\* marker in change: key of a dict, element of a list, substring of a str
Iterable(v) == v.kind \in {"dict", "list", "str"}
Contains(change, marker) ==
    CASE change.kind = "dict" -> HasKey(change, marker)
      [] change.kind = "list" ->
            \E i \in 1..Len(change.items) :
                /\ change.items[i].kind = "str"
                /\ change.items[i].s = MarkerChars(marker)
      [] change.kind = "str" -> IsSubstring(MarkerChars(marker), change.s)
      [] OTHER -> FALSE

m2m_swapped(field_name, operation, objects) ==
    PyDict(<<Item(field_name,
                  PyDict(<<Item("type", PyStr(<<"m", "2", "m">>)),
                           Item("operation",
                                PyStr(IF operation = "add"
                                      THEN <<"d", "e", "l", "e", "t", "e">>
                                      ELSE <<"a", "d", "d">>)),
                           Item("objects", objects)>>))>>)

\* lines 107-113 and 115-121: the rewritten record
m2m(field_name, operation, objects) ==
    PyDict(<<Item(field_name,
                  PyDict(<<Item("type", PyStr(<<"m", "2", "m">>)),
                           Item("operation",
                                PyStr(IF operation = "add"
                                      THEN <<"a", "d", "d">>
                                      ELSE <<"d", "e", "l", "e", "t", "e">>)),
                           Item("objects", objects)>>))>>)

rewrite_m2m_removed_first(changes) ==
    IF changes.kind # "dict" THEN AttributeError
    ELSE LET field_name == changes.items[1].k
             change == changes.items[1].v
         IN  IF ~Iterable(change) THEN TypeError
             ELSE IF Contains(change, Removed)
                  THEN IF change.kind # "dict" THEN TypeError
                       ELSE Ok(m2m(field_name, "delete", GetItem(change, Removed)))
             ELSE IF Contains(change, Added)
                  THEN IF change.kind # "dict" THEN TypeError
                       ELSE Ok(m2m(field_name, "add", GetItem(change, Added)))
             ELSE Ok(changes)

\* lines 104-121, for a parsed value with len(changes) == 1
rewrite_m2m(changes) ==
    IF changes.kind # "dict" THEN AttributeError      \* changes.keys()
    ELSE LET field_name == changes.items[1].k
             change == changes.items[1].v
         IN  IF ~Iterable(change) THEN TypeError      \* 'Added' in change
             ELSE IF Contains(change, Added)
                  THEN IF change.kind # "dict" THEN TypeError   \* change['Added']
                       ELSE Ok(m2m(field_name, "add", GetItem(change, Added)))
             ELSE IF Contains(change, Removed)
                  THEN IF change.kind # "dict" THEN TypeError   \* change['Removed']
                       ELSE Ok(m2m(field_name, "delete", GetItem(change, Removed)))
             ELSE Ok(changes)

one_field_or_more(changes) == len(changes) >= 1

\* line 103: len(changes) == 1
one_field(changes) == len(changes) = 1

\* lines 102-122: the body of the try block for one log
convert(changes_text, migrate_m2m) ==
    LET parsed == json_loads(changes_text)
    IN  IF ~parsed.ok THEN ValueError
        ELSE IF ~migrate_m2m THEN parsed
        ELSE IF ~Sized(parsed.v) THEN TypeError       \* len(changes)
        ELSE IF one_field(parsed.v) THEN rewrite_m2m(parsed.v)
        ELSE parsed

(***************************************************************************)
(* The table auditlog_logentry.  A row is [id, changes_text, changes]; a   *)
(* column holds SqlNull or a value.                                        *)
(***************************************************************************)
Text(s) == [kind |-> "text", s |-> s]
Row(id, changes_text, changes) ==
    [id |-> id, changes_text |-> changes_text, changes |-> changes]

\* filter(changes_text__isnull=False, changes__isnull=True).exclude(changes_text__exact="")
pending(row) ==
    /\ row.changes_text # SqlNull
    /\ row.changes = SqlNull
    /\ row.changes_text # Text("")

get_logs(rows) == SelectSeq(rows, pending)

Ids(rows) == {rows[i].id : i \in 1..Len(rows)}
first_n(rows, n) == SubSeq(rows, 1, IF Len(rows) < n THEN Len(rows) ELSE n)
ceil_div(n, d) == (n + d - 1) \div d

\* What bulk_update leaves in the column for the Python value of log.changes.
stored(value) == IF value = PyNone /\ orm = "sqlnull" THEN SqlNull ELSE value

bulk_update_by_position(rows, updated) ==
    [i \in 1..Len(rows) |->
        IF i <= Len(updated)
        THEN [rows[i] EXCEPT !.changes = stored(updated[i].changes)]
        ELSE rows[i]]

\* LogEntry.objects.bulk_update(updated, fields=["changes"])
bulk_update(rows, updated) ==
    [i \in 1..Len(rows) |->
        IF \E j \in 1..Len(updated) : updated[j].id = rows[i].id
        THEN LET j == CHOOSE j \in 1..Len(updated) : updated[j].id = rows[i].id
             IN  [rows[i] EXCEPT !.changes = stored(updated[j].changes)]
        ELSE rows[i]]

\* lines 98-126: the loop over _logs; an exception other than ValueError
\* leaves the loop (and the function) at the first log that raises it.
converted(log) == log.r.ok
failed(log) == ~log.r.ok /\ log.r.exc = "ValueError"
raises(log) == ~log.r.ok /\ log.r.exc # "ValueError"

_apply_django_migration(_logs, migrate_m2m) ==
    LET done == [i \in 1..Len(_logs) |->
                    [id |-> _logs[i].id,
                     r |-> convert(_logs[i].changes_text.s, migrate_m2m)]]
        ok == SelectSeq(done, converted)
        bad == SelectSeq(done, failed)
        exc == SelectSeq(done, raises)
    IN  [raised |-> IF exc = <<>> THEN "" ELSE exc[1].r.exc,
         updated |-> [i \in 1..Len(ok) |-> [id |-> ok[i].id, changes |-> ok[i].r.v]],
         errors |-> [i \in 1..Len(bad) |-> bad[i].id]]

\* "changes_text"::jsonb of the UPDATE statement: on the texts of the model the
\* cast accepts what json.loads accepts, and 'null' becomes the JSON null
jsonb(changes_text) == json_loads(changes_text)

(***************************************************************************)
(* Invocations.  proc[p] is the frame of one call of handle or of          *)
(* migrate_using_django, with what it has printed and the statements it    *)
(* has sent to the store so far.                                           *)
(***************************************************************************)
None == "None"
Terminal == {"return", "raised", "aborted"}

Invocation(world, after, entry, database, batch_size, check, migrate_m2m) ==
    [world |-> world, after |-> after, entry |-> entry, pc |-> entry,
     database |-> database, batch_size |-> batch_size, check |-> check,
     migrate_m2m |-> migrate_m2m,
     left |-> 0, logs |-> <<>>, total_updated |-> 0, result |-> 0,
     raised |-> "", stdout |-> <<>>, stderr |-> <<>>, calls |-> <<>>,
     statements |-> <<>>]

Stmt(op, ids) == [op |-> op, ids |-> ids]

\* the caller runs invocation p after invocation proc[p].after has ended
Ready(p) ==
    IF proc[p].after = 0 THEN TRUE ELSE proc[proc[p].after].pc \in Terminal

rows_of(p) == db[proc[p].world]

\* lines 74-87 (the hint of lines 81-85 about the setting is one more line of
\* output after "All records have been migrated." and is left out of stdout)
check_logs(f, rows) ==
    LET count == Len(get_logs(rows))
    IN  [f EXCEPT !.calls = Append(@, "check_logs"),
                  !.statements = Append(@, Stmt("count", {})),
                  !.stdout = Append(@, IF count # 0 THEN "needs migration"
                                       ELSE "All records have been migrated.")]

returns_early_only_on_check(count, check) == check
returns_early_only_when_migrated(count, check) == count = 0

\* line 56: (not self.check_logs()) or check
returns_early(count, check) == count = 0 \/ check

\* lines 50-57
handle_check(p) ==
    /\ proc[p].pc = "handle"
    /\ Ready(p)
    /\ LET f == check_logs(proc[p], rows_of(p))
           count == Len(get_logs(rows_of(p)))
       IN  proc' = [proc EXCEPT ![p] =
                [f EXCEPT !.pc = IF returns_early(count, f.check) THEN "return" ELSE "dispatch"]]
    /\ UNCHANGED <<db, orm, db0>>

implemented_any(database) == TRUE

\* line 166
implemented(database) == database = "postgres"

where_text_only(row) ==
    /\ row.changes_text # SqlNull
    /\ row.changes_text # Text("")

\* lines 159-161: the WHERE clause of the UPDATE statement
where(row) ==
    /\ row.changes_text # SqlNull
    /\ row.changes_text # Text("")
    /\ row.changes = SqlNull

\* lines 59-60, 150-172: migrate_using_sql
migrate_using_sql(p) ==
    /\ proc[p].pc = "dispatch"
    /\ proc[p].database # None
    /\ LET f == [proc[p] EXCEPT !.calls = Append(@, "migrate_using_sql")]
           rows == rows_of(p)
           hit == SelectSeq(rows, where)
       IN  IF ~implemented(f.database)
           THEN /\ proc' = [proc EXCEPT ![p] =
                        [f EXCEPT !.pc = "raised", !.raised = "CommandError"]]
                /\ UNCHANGED db
           ELSE IF \E i \in 1..Len(hit) : ~jsonb(hit[i].changes_text.s).ok
           THEN /\ proc' = [proc EXCEPT ![p] =
                        [f EXCEPT !.pc = "raised", !.raised = "DataError",
                                  !.statements = Append(@, Stmt("update", {}))]]
                /\ UNCHANGED db
           ELSE /\ db' = [db EXCEPT ![f.world] =
                        [i \in 1..Len(rows) |->
                            IF where(rows[i])
                            THEN [rows[i] EXCEPT
                                    !.changes = jsonb(rows[i].changes_text.s).v]
                            ELSE rows[i]]]
                /\ proc' = [proc EXCEPT ![p] =
                        [f EXCEPT !.pc = "verify", !.result = Len(hit),
                                  !.statements = Append(@, Stmt("update", Ids(hit))),
                                  !.stdout = Append(@, "Updated using native database operations.")]]
    /\ UNCHANGED <<orm, db0>>

\* lines 66-67: handle calls migrate_using_django
handle_django(p) ==
    /\ proc[p].pc = "dispatch"
    /\ proc[p].database = None
    /\ proc' = [proc EXCEPT ![p].pc = "django"]
    /\ UNCHANGED <<db, orm, db0>>

\* where migrate_using_django returns to
returned(f, result) ==
    IF f.entry = "handle"
    THEN [f EXCEPT !.pc = "verify", !.result = result,
                   !.stdout = Append(@, "Updated using django operations.")]
    ELSE [f EXCEPT !.pc = "return", !.result = result]

\* lines 140-143: batch_size 0, the whole queryset is evaluated by the loop
django_all(p) ==
    /\ proc[p].pc = "django"
    /\ Ready(p)
    /\ proc[p].batch_size = 0
    /\ LET logs == get_logs(rows_of(p))
       IN  proc' = [proc EXCEPT ![p] =
                [@ EXCEPT !.pc = "apply", !.logs = logs,
                          !.calls = Append(@, "migrate_using_django"),
                          !.statements = Append(@, Stmt("select", Ids(logs)))]]
    /\ UNCHANGED <<db, orm, db0>>

\* lines 145-146: range(ceil(logs.count() / batch_size))
django_count(p) ==
    /\ proc[p].pc = "django"
    /\ Ready(p)
    /\ proc[p].batch_size # 0
    /\ proc' = [proc EXCEPT ![p] =
            [@ EXCEPT !.pc = "loop", !.total_updated = 0,
                      !.left = ceil_div(Len(get_logs(rows_of(p))), proc[p].batch_size),
                      !.calls = Append(@, "migrate_using_django"),
                      !.statements = Append(@, Stmt("count", {}))]]
    /\ UNCHANGED <<db, orm, db0>>

\* line 147: self.get_logs()[:batch_size], evaluated by the loop of line 100
django_fetch(p) ==
    /\ proc[p].pc = "loop"
    /\ proc[p].left > 0
    /\ LET logs == first_n(get_logs(rows_of(p)), proc[p].batch_size)
       IN  proc' = [proc EXCEPT ![p] =
                [@ EXCEPT !.pc = "apply", !.logs = logs, !.left = @ - 1,
                          !.statements = Append(@, Stmt("select", Ids(logs)))]]
    /\ UNCHANGED <<db, orm, db0>>

\* line 148
django_return(p) ==
    /\ proc[p].pc = "loop"
    /\ proc[p].left = 0
    /\ proc' = [proc EXCEPT ![p] = returned(@, @.total_updated)]
    /\ UNCHANGED <<db, orm, db0>>

\* lines 98-138: convert the fetched logs, bulk_update, report the errors
django_apply(p) ==
    /\ proc[p].pc = "apply"
    /\ LET f == proc[p]
           done == _apply_django_migration(f.logs, f.migrate_m2m)
           ids == {done.updated[i].id : i \in 1..Len(done.updated)}
           g == [f EXCEPT !.logs = <<>>,
                          !.total_updated = @ + Len(done.updated),
                          !.stderr = IF done.errors # <<>>
                                     THEN Append(@, done.errors) ELSE @,
                          !.statements = IF done.updated # <<>>
                                         THEN Append(@, Stmt("update", ids)) ELSE @]
       IN  IF done.raised # ""
           THEN /\ proc' = [proc EXCEPT ![p] =
                        [f EXCEPT !.pc = "raised", !.raised = done.raised,
                                  !.logs = <<>>]]
                /\ UNCHANGED db
           ELSE /\ db' = [db EXCEPT ![f.world] = bulk_update(@, done.updated)]
                /\ proc' = [proc EXCEPT ![p] =
                        IF f.batch_size = 0
                        THEN returned(g, Len(done.updated))
                        ELSE [g EXCEPT !.pc = "loop"]]
    /\ UNCHANGED <<orm, db0>>

after_verify_retry(count) == IF count # 0 THEN "dispatch" ELSE "return"

\* line 72: handle ends with the second check_logs, whatever it counts
after_verify(count) == "return"

\* line 72
handle_verify(p) ==
    /\ proc[p].pc = "verify"
    /\ proc' = [proc EXCEPT ![p] =
            [check_logs(@, rows_of(p)) EXCEPT
                !.pc = after_verify(Len(get_logs(rows_of(p))))]]
    /\ UNCHANGED <<db, orm, db0>>

\* A store error or a kill between two batches ends the run; the batches
\* already written by bulk_update are committed.
abort(p) ==
    /\ proc[p].pc = "loop"
    /\ proc' = [proc EXCEPT ![p].pc = "aborted"]
    /\ UNCHANGED <<db, orm, db0>>

(***************************************************************************)
(* Bounds and initial states.                                              *)
(***************************************************************************)
MaxRecords == 3        \* rows of a store
MaxBatch == 2          \* --batch-size ranges over 0..MaxBatch
MaxIdemRecords == 5    \* rows of a store of SpecIdem
MaxRows == 4           \* rows of a store of SpecLoop, with those inserted during the run

Builds == {"sqlnull", "jsonnull"}
Databases == {None, "postgres", "mysql", "oracle"}      \* line 31

Cell(changes_text, changes) == [changes_text |-> changes_text, changes |-> changes]
Stores(cells, n) == UNION {[1..k -> cells] : k \in 0..n}
table(cells) ==
    [i \in 1..Len(cells) |-> Row(i, cells[i].changes_text, cells[i].changes)]

Good == Cell(Text(T_plain), SqlNull)
Bad == Cell(Text(T_invalid), SqlNull)
Migrated == Cell(Text(T_plain), V_plain)
NoText == Cell(SqlNull, SqlNull)
EmptyText == Cell(Text(""), SqlNull)
ListAdded == Cell(Text(T_list_added), SqlNull)
NullText == Cell(Text(T_null), SqlNull)
AddedText == Cell(Text(T_added), SqlNull)

HandleCells == {Good, Bad, Migrated, NoText, EmptyText, ListAdded, NullText}
RerunCells == {Good, Bad, Migrated, EmptyText, ListAdded, NullText}
IdemCells == {Good, Bad}
InvarianceCells == {Good, Bad, Migrated, ListAdded}
LoopCells == {Good, Bad, Migrated, ListAdded}
ConcurrentCells == {Good, Migrated, AddedText, ListAdded, NullText}
PathsCells == {Good, Bad, Migrated, NoText, EmptyText, AddedText, NullText}
ConvertTexts ==
    {T_plain, T_added, T_removed, T_both, T_neither, T_two, T_added_first,
     T_removed_three, T_empty_dict,
     T_num_field, T_null_field, T_str_field, T_str_added, T_list_added, T_int,
     T_list1, T_list2, T_str1, T_null, T_true, T_invalid, T_truncated}

\* one invocation of the command, any options
Init ==
    /\ orm \in Builds
    /\ \E cells \in Stores(HandleCells, MaxRecords) : db = <<table(cells)>>
    /\ \E database \in Databases, batch_size \in 0..MaxBatch,
          check \in BOOLEAN, migrate_m2m \in BOOLEAN :
            proc = <<Invocation(1, 0, "handle", database, batch_size, check, migrate_m2m)>>
    /\ db0 = db

\* migrate_using_django called twice in a row on one store, same arguments
InitRerun ==
    /\ orm \in Builds
    /\ \E cells \in Stores(RerunCells, MaxRecords) : db = <<table(cells)>>
    /\ \E batch_size \in 0..MaxBatch, migrate_m2m \in BOOLEAN :
            proc = <<Invocation(1, 0, "django", None, batch_size, FALSE, migrate_m2m),
                     Invocation(1, 1, "django", None, batch_size, FALSE, migrate_m2m)>>
    /\ db0 = db

InitIdem ==
    /\ orm \in Builds
    /\ \E cells \in Stores(IdemCells, MaxIdemRecords) : db = <<table(cells)>>
    /\ \E batch_size \in 0..MaxBatch, migrate_m2m \in BOOLEAN :
            proc = <<Invocation(1, 0, "django", None, batch_size, FALSE, migrate_m2m),
                     Invocation(1, 1, "django", None, batch_size, FALSE, migrate_m2m)>>
    /\ db0 = db

\* the same store three times, migrated with batch sizes 1, 3 and 0
InitInvariance ==
    /\ orm \in Builds
    /\ \E cells \in Stores(InvarianceCells, MaxRecords) :
            db = <<table(cells), table(cells), table(cells)>>
    /\ \E migrate_m2m \in BOOLEAN :
            proc = <<Invocation(1, 0, "django", None, 1, FALSE, migrate_m2m),
                     Invocation(2, 1, "django", None, 3, FALSE, migrate_m2m),
                     Invocation(3, 2, "django", None, 0, FALSE, migrate_m2m)>>
    /\ db0 = db

\* one pending record of any text, converted by one run
InitConvert ==
    /\ orm \in Builds
    /\ \E changes_text \in ConvertTexts : db = <<table(<<Cell(Text(changes_text), SqlNull)>>)>>
    /\ \E batch_size \in 0..1, migrate_m2m \in BOOLEAN :
            proc = <<Invocation(1, 0, "django", None, batch_size, FALSE, migrate_m2m)>>
    /\ db0 = db

\* Another writer of the application saves a new LogEntry that has only the
\* legacy text, while a run is between two of its statements; the new row
\* comes first or last in the order of get_logs.
insert(w, changes_text, first) ==
    /\ \E p \in DOMAIN proc : proc[p].world = w /\ proc[p].pc \in {"django", "loop", "apply"}
    /\ Len(db[w]) < MaxRows
    /\ LET row == Row(Len(db[w]) + 1, Text(changes_text), SqlNull)
       IN  db' = [db EXCEPT ![w] = IF first THEN <<row>> \o @ ELSE Append(@, row)]
    /\ UNCHANGED <<proc, orm, db0>>

\* one run of migrate_using_django while another writer inserts records
InitLoop ==
    /\ orm \in Builds
    /\ \E cells \in Stores(LoopCells, MaxRows - 1) : db = <<table(cells)>>
    /\ \E batch_size \in 0..MaxBatch, migrate_m2m \in BOOLEAN :
            proc = <<Invocation(1, 0, "django", None, batch_size, FALSE, migrate_m2m)>>
    /\ db0 = db

\* two runs of migrate_using_django at the same time on one store, same
\* arguments; every pending text is valid JSON
InitConcurrent ==
    /\ orm \in Builds
    /\ \E cells \in Stores(ConcurrentCells, MaxRecords) : db = <<table(cells)>>
    /\ \E batch_size \in 0..MaxBatch, migrate_m2m \in BOOLEAN :
            proc = <<Invocation(1, 0, "django", None, batch_size, FALSE, migrate_m2m),
                     Invocation(1, 0, "django", None, batch_size, FALSE, migrate_m2m)>>
    /\ db0 = db

\* the same store twice: migrated by the command with -d postgres, and by
\* the command without -d and without --migrate-m2m
InitPaths ==
    /\ orm \in Builds
    /\ \E cells \in Stores(PathsCells, MaxRecords) : db = <<table(cells), table(cells)>>
    /\ \E batch_size \in 0..MaxBatch :
            proc = <<Invocation(1, 0, "handle", "postgres", batch_size, FALSE, FALSE),
                     Invocation(2, 1, "handle", None, batch_size, FALSE, FALSE)>>
    /\ db0 = db

NextDjango ==
    \/ \E p \in DOMAIN proc : django_all(p)
    \/ \E p \in DOMAIN proc : django_count(p)
    \/ \E p \in DOMAIN proc : django_fetch(p)
    \/ \E p \in DOMAIN proc : django_apply(p)
    \/ \E p \in DOMAIN proc : django_return(p)

NextRerun ==
    \/ NextDjango
    \/ \E p \in DOMAIN proc : abort(p)

NextLoop ==
    \/ NextDjango
    \/ \E w \in DOMAIN db, changes_text \in {T_plain, T_invalid}, first \in BOOLEAN :
            insert(w, changes_text, first)

Next ==
    \/ \E p \in DOMAIN proc : handle_check(p)
    \/ \E p \in DOMAIN proc : migrate_using_sql(p)
    \/ \E p \in DOMAIN proc : handle_django(p)
    \/ \E p \in DOMAIN proc : handle_verify(p)
    \/ NextDjango

Spec == Init /\ [][Next]_vars
SpecRerun == InitRerun /\ [][NextRerun]_vars
SpecIdem == InitIdem /\ [][NextDjango]_vars
SpecInvariance == InitInvariance /\ [][NextDjango]_vars
SpecConvert == InitConvert /\ [][NextDjango]_vars
SpecLoop == InitLoop /\ [][NextLoop]_vars
SpecConcurrent == InitConcurrent /\ [][NextDjango]_vars
SpecPaths == InitPaths /\ [][Next]_vars

(***************************************************************************)
(* Properties.                                                             *)
(***************************************************************************)
Procs == DOMAIN proc
Structured(rows) == {rows[i].id : i \in {j \in 1..Len(rows) : rows[j].changes # SqlNull}}
Pending(rows) == Ids(get_logs(rows))
Parses(row) == row.changes_text # SqlNull /\ json_loads(row.changes_text.s).ok
\* the identities a run has reported as failed, and those it has sent to bulk_update
Reported(f) == UNION {{f.stderr[i][j] : j \in 1..Len(f.stderr[i])} : i \in 1..Len(f.stderr)}
Updates(f) ==
    UNION {f.statements[i].ids : i \in {j \in 1..Len(f.statements) : f.statements[j].op = "update"}}

\* C1: the runs with batch sizes 1, 3 and 0 of the same pending set, once all
\* three have returned, leave the same records structured and have reported
\* the same failed identities.
C1_BatchSizeInvariance ==
    (\A p \in Procs : proc[p].pc = "return") =>
        /\ Structured(db[1]) = Structured(db[2])
        /\ Structured(db[2]) = Structured(db[3])
        /\ Reported(proc[1]) = Reported(proc[2])
        /\ Reported(proc[2]) = Reported(proc[3])

\* C2: when migrate_using_django has returned twice in a row on one store,
\* the second call returned 0.
C2_Idempotence ==
    (proc[1].pc = "return" /\ proc[2].pc = "return") => proc[2].result = 0

\* C3: after a run with batch_size 0, every record that was pending at the
\* start and whose text parses has a value in changes, and the records still
\* pending are exactly those whose text does not parse.
C3_Coverage ==
    \A p \in Procs :
        (proc[p].batch_size = 0 /\ proc[p].pc \in Terminal) =>
            LET before == db0[proc[p].world]
                after == db[proc[p].world]
            IN  \A i \in 1..Len(before) :
                    pending(before[i]) =>
                        /\ Parses(before[i]) => after[i].changes # SqlNull
                        /\ pending(after[i]) <=> ~Parses(before[i])

\* C4: each time a fetched batch has been processed, every log of it whose
\* text is not valid JSON is in the reported failures and still pending, and
\* every other log of that batch has its value written.
RowOf(rows, id) == CHOOSE r \in {rows[j] : j \in 1..Len(rows)} : r.id = id
C4_FailureIsolation ==
    [][\A p \in Procs :
        (proc[p].pc = "apply" /\ proc'[p].pc # "apply") =>
            \A i \in 1..Len(proc[p].logs) :
                ~Parses(proc[p].logs[i]) =>
                    /\ proc[p].logs[i].id \in Reported(proc'[p])
                    /\ pending(RowOf(db'[proc[p].world], proc[p].logs[i].id))
                    /\ \A j \in 1..Len(proc[p].logs) :
                          Parses(proc[p].logs[j]) =>
                            RowOf(db'[proc[p].world], proc[p].logs[j].id).changes # SqlNull]_vars

\* C5 as claimed: an invocation that names a native engine other than
\* postgres ends with CommandError and without a write, whatever the store
\* and the other options.
Unsupported(f) == f.entry = "handle" /\ f.database \notin {None, "postgres"}
C5_AlwaysCommandError ==
    \A p \in Procs :
        (Unsupported(proc[p]) /\ proc[p].pc \in Terminal) =>
            /\ proc[p].raised = "CommandError"
            /\ Updates(proc[p]) = {}
            /\ db = db0

\* C5 amended: an invocation that names a native engine other than postgres
\* never writes; it ends with CommandError when the first check found pending
\* records and --check is off, and returns normally otherwise.
C5_CommandErrorWhenDispatched ==
    \A p \in Procs :
        Unsupported(proc[p]) =>
            /\ db = db0
            /\ \A i \in 1..Len(proc[p].statements) : proc[p].statements[i].op = "count"
            /\ proc[p].pc \in Terminal =>
                 IF Pending(db0[proc[p].world]) # {} /\ ~proc[p].check
                 THEN proc[p].pc = "raised" /\ proc[p].raised = "CommandError"
                 ELSE proc[p].pc = "return" /\ proc[p].raised = ""

C5_Witness ==
    \E p \in Procs :
        /\ Unsupported(proc[p])
        /\ proc[p].pc = "raised"
        /\ proc[p].raised = "CommandError"
        /\ Cardinality(Pending(db0[proc[p].world])) >= 2

\* C6: on a store without pending records, handle goes in one step from its
\* start to its return: it has printed "All records have been migrated.",
\* sent the one count query of check_logs, and called neither migration path.
C6_AlreadyMigrated ==
    \A p \in Procs :
        (proc[p].entry = "handle" /\ Pending(db0[proc[p].world]) = {}) =>
            /\ db = db0
            /\ \/ proc[p].pc = "handle" /\ proc[p].statements = <<>>
               \/ /\ proc[p].pc = "return"
                  /\ proc[p].stdout = <<"All records have been migrated.">>
                  /\ proc[p].statements = <<Stmt("count", {})>>
                  /\ proc[p].calls = <<"check_logs">>

C6_Witness ==
    \E p \in Procs :
        /\ proc[p].pc = "return"
        /\ Pending(db0[proc[p].world]) = {}
        /\ Len(db0[proc[p].world]) >= 2
        /\ proc[p].database = "mysql"
        /\ ~proc[p].check

\* C7: with --check, handle changes no record and calls neither
\* migrate_using_sql nor migrate_using_django.
C7_CheckOnly ==
    \A p \in Procs :
        (proc[p].entry = "handle" /\ proc[p].check) =>
            /\ db = db0
            /\ Updates(proc[p]) = {}
            /\ \A i \in 1..Len(proc[p].calls) : proc[p].calls[i] = "check_logs"
            /\ proc[p].pc \in {"handle", "return"}

C7_Witness ==
    \E p \in Procs :
        /\ proc[p].check
        /\ proc[p].pc = "return"
        /\ Cardinality(Pending(db0[proc[p].world])) >= 2
        /\ proc[p].stdout = <<"needs migration">>

\* C8: when a run with batch_size > 0 was aborted, the records its completed
\* batches sent to bulk_update have a value in changes from then on, and a
\* later run that returns without a reported failure leaves no record
\* pending and updates no record that was already migrated.
C8_Resumability ==
    (proc[1].batch_size > 0 /\ proc[1].pc = "aborted") =>
        /\ Updates(proc[1]) \subseteq Structured(db[1])
        /\ (proc[2].pc = "return" /\ Reported(proc[2]) = {}) =>
              /\ Pending(db[1]) = {}
              /\ Updates(proc[2]) \cap (Structured(db0[1]) \cup Updates(proc[1])) = {}

\* C9: the calls of one invocation of handle are check_logs, then at most
\* one of migrate_using_sql and migrate_using_django (the first iff a
\* database is given), then check_logs once more, which runs only when the
\* migration returned and is the last thing handle does.
Dispatch(f) == IF f.database # None THEN "migrate_using_sql" ELSE "migrate_using_django"
C9_DriverOrdering ==
    \A p \in Procs :
        proc[p].entry = "handle" =>
            LET f == proc[p]
                n == Len(f.calls)
            IN  /\ n <= 3
                /\ n >= 1 => f.calls[1] = "check_logs"
                /\ n >= 2 => f.calls[2] = Dispatch(f)
                /\ n = 3 => f.calls[3] = "check_logs" /\ f.pc = "return" /\ f.raised = ""
                /\ f.pc = "verify" => n = 2 /\ f.raised = ""
                /\ (f.pc = "return" /\ n >= 2) => n = 3
                /\ f.pc = "raised" => n = 2

C9_Witness ==
    \E p \in Procs :
        /\ proc[p].calls = <<"check_logs", "migrate_using_django", "check_logs">>
        /\ proc[p].pc = "return"
        /\ Pending(db[proc[p].world]) # {}
        /\ Updates(proc[p]) # {}

\* C10: with migrate_m2m, a text whose parsed value has one field whose value
\* has the key 'Added' is stored as {field: {type, operation: 'add', objects:
\* the Added value}}; with the key 'Removed' and no 'Added', as {field: {type,
\* operation: 'delete', objects: the Removed value}}; without migrate_m2m the
\* same texts are stored as parsed.
Marked(v, marker) ==
    /\ v.kind = "dict"
    /\ Len(v.items) = 1
    /\ v.items[1].v.kind = "dict"
    /\ HasKey(v.items[1].v, marker)

IsOperation(changes, field_name, operation, objects) ==
    /\ changes.kind = "dict"
    /\ Len(changes.items) = 1
    /\ changes.items[1].k = field_name
    /\ changes.items[1].v.kind = "dict"
    /\ {changes.items[1].v.items[i].k : i \in 1..Len(changes.items[1].v.items)}
            = {"type", "operation", "objects"}
    /\ Len(changes.items[1].v.items) = 3
    /\ GetItem(changes.items[1].v, "operation") = PyStr(operation)
    /\ GetItem(changes.items[1].v, "objects") = objects

C10_MembershipTransform ==
    proc[1].pc \in Terminal =>
        LET row == db[1][1]
            parsed == json_loads(row.changes_text.s)
            value == parsed.v.items[1].v
        IN  /\ (parsed.ok /\ Marked(parsed.v, Added)) =>
                /\ proc[1].pc = "return"
                /\ IF proc[1].migrate_m2m
                   THEN IsOperation(row.changes, parsed.v.items[1].k, <<"a", "d", "d">>,
                                    GetItem(value, Added))
                   ELSE row.changes = parsed.v
            /\ (parsed.ok /\ Marked(parsed.v, Removed) /\ ~Marked(parsed.v, Added)) =>
                /\ proc[1].pc = "return"
                /\ IF proc[1].migrate_m2m
                   THEN IsOperation(row.changes, parsed.v.items[1].k,
                                    <<"d", "e", "l", "e", "t", "e">>, GetItem(value, Removed))
                   ELSE row.changes = parsed.v
            /\ (row.changes_text.s = T_added /\ proc[1].migrate_m2m) =>
                row.changes =
                    PyDict(<<Item("tags",
                        PyDict(<<Item("type", PyStr(<<"m", "2", "m">>)),
                                 Item("operation", PyStr(<<"a", "d", "d">>)),
                                 Item("objects", PyList(<<s_x, s_y>>))>>))>>)

C10_Witness ==
    /\ proc[1].pc = "return"
    /\ proc[1].migrate_m2m
    /\ db[1][1].changes_text.s = T_removed
    /\ db[1][1].changes # SqlNull

\* C11: a text whose parsed value is an object with two or more fields is
\* stored exactly as json.loads returned it, with and without migrate_m2m,
\* also when one of its fields holds the key 'Added' or 'Removed'.
Fields(v) == IF v.kind = "dict" THEN Len(v.items) ELSE 0
C11_MultiFieldPassthrough ==
    proc[1].pc \in Terminal =>
        LET row == db[1][1]
            parsed == json_loads(row.changes_text.s)
        IN  (parsed.ok /\ Fields(parsed.v) >= 2) =>
                /\ proc[1].pc = "return"
                /\ proc[1].result = 1
                /\ row.changes = parsed.v

C11_Witness ==
    /\ proc[1].pc = "return"
    /\ proc[1].migrate_m2m
    /\ db[1][1].changes_text.s = T_added_first
    /\ db[1][1].changes = V_added_first

\* C12: converting one record ends either with its value sent to bulk_update
\* or with its identity in the reported failures, never with an exception
\* that leaves the run; and with migrate_m2m, a parsed value that is not an
\* object of one field whose value has the key 'Added' or 'Removed' is stored
\* as parsed.  (For the value None only the outcome is compared, not the
\* column.)
C12_ConverterTotality ==
    proc[1].pc \in Terminal =>
        LET row == db[1][1]
            parsed == json_loads(row.changes_text.s)
        IN  /\ proc[1].pc = "return" /\ proc[1].raised = ""
            /\ \/ Updates(proc[1]) = {1} /\ Reported(proc[1]) = {} /\ proc[1].result = 1
               \/ Updates(proc[1]) = {} /\ Reported(proc[1]) = {1} /\ proc[1].result = 0
            /\ Reported(proc[1]) = {1} <=> ~parsed.ok
            /\ (/\ proc[1].migrate_m2m
                /\ parsed.ok
                /\ ~Marked(parsed.v, Added)
                /\ ~Marked(parsed.v, Removed)
                /\ parsed.v # PyNone) => row.changes = parsed.v

\* C13 as claimed: on postgres, migrate_using_sql always writes the value of
\* exactly the records pending at that time, leaves the others unchanged and
\* returns their number, and the check_logs that follows counts no pending
\* record.
Native(f) == f.entry = "handle" /\ f.database = "postgres"
Selected(before, after, f) ==
    /\ Len(after) = Len(before)
    /\ \A i \in 1..Len(before) :
          IF pending(before[i])
          THEN /\ after[i].changes = json_loads(before[i].changes_text.s).v
               /\ after[i].changes # SqlNull
               /\ after[i].changes_text = before[i].changes_text
               /\ after[i].id = before[i].id
          ELSE after[i] = before[i]
    /\ f.result = Cardinality(Pending(before))
    /\ f.statements[Len(f.statements)] = Stmt("update", Pending(before))
    /\ Pending(after) = {}

Verified(f) ==
    /\ f.pc = "return"
    /\ f.stdout[Len(f.stdout)] = "All records have been migrated."

C13_NativeAlwaysSelects ==
    [][\A p \in Procs :
        /\ (Native(proc[p]) /\ proc[p].pc = "dispatch") =>
              /\ proc'[p].pc = "verify"
              /\ Selected(db[proc[p].world], db'[proc[p].world], proc'[p])
        /\ (Native(proc[p]) /\ proc[p].pc = "verify") =>
              /\ db' = db
              /\ Verified(proc'[p])]_vars

\* C13 amended: the statement does so when the text of every pending record
\* is valid JSON; when one is not, the statement fails as a whole, no record
\* is changed and handle ends with the error of the store, without the
\* second check_logs.
AllParse(rows) == \A i \in 1..Len(rows) : pending(rows[i]) => Parses(rows[i])
C13_NativeSelectsWhenValid ==
    [][\A p \in Procs :
        /\ (Native(proc[p]) /\ proc[p].pc = "dispatch") =>
              IF AllParse(db[proc[p].world])
              THEN /\ proc'[p].pc = "verify"
                   /\ Selected(db[proc[p].world], db'[proc[p].world], proc'[p])
              ELSE /\ proc'[p].pc = "raised"
                   /\ proc'[p].raised = "DataError"
                   /\ db' = db
        /\ (Native(proc[p]) /\ proc[p].pc = "verify") =>
              /\ db' = db
              /\ Verified(proc'[p])]_vars

C13_Witness ==
    \E p \in Procs :
        /\ Native(proc[p])
        /\ proc[p].pc = "return"
        /\ proc[p].result = 2
        /\ Len(db0[proc[p].world]) = 3
        /\ \E i \in 1..3 : db0[proc[p].world][i].changes # SqlNull
        /\ Pending(db[proc[p].world]) = {}

\* C14: a run with batch_size b > 0 reads the number N of pending records
\* once and sets out for ceil(N/b) iterations; each iteration fetches the
\* first b records pending at that time and then sends at most b of them, and
\* no other record, to bulk_update; the run performs every one of these
\* iterations and then returns, whatever fails to parse or is inserted
\* meanwhile.
Selects(f) == Cardinality({i \in 1..Len(f.statements) : f.statements[i].op = "select"})
Written(before, after) ==
    {before[i].id : i \in {j \in 1..Len(before) : after[j] # before[j]}}
C14_BoundedBatchLoop ==
    [][\A p \in Procs :
        LET f == proc[p]
            g == proc'[p]
            rows == db[f.world]
        IN  (f.batch_size > 0 /\ g # f) =>
                CASE f.pc = "django" ->
                        /\ g.pc = "loop"
                        /\ g.left = ceil_div(Cardinality(Pending(rows)), f.batch_size)
                        /\ Selects(g) = 0
                        /\ db' = db
                  [] f.pc = "loop" /\ f.left > 0 ->
                        /\ g.pc = "apply"
                        /\ g.logs = first_n(get_logs(rows), f.batch_size)
                        /\ g.left = f.left - 1
                        /\ Selects(g) = Selects(f) + 1
                        /\ db' = db
                  [] f.pc = "apply" ->
                        /\ g.pc = "loop"
                        /\ g.left = f.left
                        /\ Selects(g) = Selects(f)
                        /\ Len(db'[f.world]) = Len(rows)
                        /\ Written(rows, db'[f.world]) \subseteq Ids(f.logs)
                        /\ Cardinality(Written(rows, db'[f.world])) <= f.batch_size
                        /\ g.total_updated <= f.total_updated + f.batch_size
                  [] f.pc = "loop" /\ f.left = 0 ->
                        /\ g.pc = "return"
                        /\ g.result = f.total_updated
                        /\ db' = db
                  [] OTHER -> FALSE]_vars

\* C15: in runs of migrate_using_django without another writer, no step
\* changes the number of rows, an id or a changes_text; a step that changes
\* the changes of a row is the bulk_update of a run that fetched this row as
\* pending in the batch it is processing, the row was pending and its text
\* valid JSON, its id is in the update sent, and nothing else of the store
\* is changed.
C15_BatchFrame ==
    [][\A w \in DOMAIN db :
        /\ Len(db'[w]) = Len(db[w])
        /\ \A i \in 1..Len(db[w]) :
              LET row == db[w][i]
                  row2 == db'[w][i]
              IN  /\ row2.id = row.id
                  /\ row2.changes_text = row.changes_text
                  /\ row2.changes # row.changes =>
                        /\ pending(row)
                        /\ Parses(row)
                        /\ row2.changes # SqlNull
                        /\ \E p \in Procs :
                              /\ proc[p].world = w
                              /\ proc[p].pc = "apply"
                              /\ proc'[p].pc # "apply"
                              /\ row.id \in Ids(proc[p].logs)
                              /\ Len(proc'[p].statements) = Len(proc[p].statements) + 1
                              /\ LET st == proc'[p].statements[Len(proc'[p].statements)]
                                 IN  st.op = "update" /\ row.id \in st.ids]_vars

C15_Witness ==
    /\ proc[2].pc = "return"
    /\ Updates(proc[1]) # {}
    /\ Reported(proc[1]) # {}
    /\ Structured(db0[1]) # {}
    /\ db[1] # db0[1]

\* C16: when migrate_using_django has returned to handle, the count it
\* returned is the number of records that were pending before the run and
\* are not pending now (the pending count of the first check minus that of
\* the second), it is the number of distinct records sent to bulk_update, and
\* none of these is still pending.
Batch(f) == f.entry = "handle" /\ f.database = None
C16_UpdatedCount ==
    \A p \in Procs :
        (Batch(proc[p]) /\ proc[p].pc \in {"verify", "return"} /\ Len(proc[p].calls) >= 2) =>
            LET before == Pending(db0[proc[p].world])
                after == Pending(db[proc[p].world])
            IN  /\ proc[p].result = Cardinality(before \ after)
                /\ proc[p].result = Cardinality(before) - Cardinality(after)
                /\ proc[p].result = Cardinality(Updates(proc[p]))
                /\ Updates(proc[p]) \cap after = {}

\* C17: when two concurrent runs with the same batch_size > 0 and the same
\* migrate_m2m, on a store whose pending texts are all valid JSON, have both
\* ended, both have returned, no record is pending, and the changes of every
\* record that was pending is the conversion of its changes_text.
C17_ConcurrentRunsConverge ==
    (/\ \A p \in Procs : proc[p].pc \in Terminal
     /\ proc[1].batch_size > 0
     /\ AllParse(db0[1])) =>
        /\ \A p \in Procs : proc[p].pc = "return" /\ proc[p].raised = ""
        /\ Pending(db[1]) = {}
        /\ \A i \in 1..Len(db0[1]) :
              pending(db0[1][i]) =>
                LET r == convert(db0[1][i].changes_text.s, proc[1].migrate_m2m)
                IN  r.ok /\ db[1][i].changes = r.v

\* C18: on a store whose pending texts are all valid JSON, when the command
\* with -d postgres and the command without -d (migrate_m2m off, any
\* batch_size) have both ended, both have returned, the two stores are equal
\* and the two paths report the same number of updated records.
C18_PathEquivalence ==
    (/\ proc[1].pc \in Terminal
     /\ proc[2].pc \in Terminal
     /\ AllParse(db0[1])) =>
        /\ proc[1].pc = "return"
        /\ proc[2].pc = "return"
        /\ db[1] = db[2]
        /\ proc[1].result = proc[2].result

\* C19: with migrate_m2m, a text whose one field has a value with both keys
\* 'Added' and 'Removed' is stored as the operation 'add' on the Added
\* value; the stored value has no key 'Removed' and holds the Removed value
\* nowhere.
C19_MarkerPrecedence ==
    (proc[1].pc \in Terminal /\ proc[1].migrate_m2m) =>
        LET row == db[1][1]
            parsed == json_loads(row.changes_text.s)
            value == parsed.v.items[1].v
            inner == row.changes.items[1].v
        IN  (parsed.ok /\ Marked(parsed.v, Added) /\ Marked(parsed.v, Removed)) =>
                /\ proc[1].pc = "return"
                /\ IsOperation(row.changes, parsed.v.items[1].k, <<"a", "d", "d">>,
                               GetItem(value, Added))
                /\ ~HasKey(inner, Removed)
                /\ \A i \in 1..Len(inner.items) : inner.items[i].v # GetItem(value, Removed)

C19_Witness ==
    /\ proc[1].pc = "return"
    /\ proc[1].migrate_m2m
    /\ db[1][1].changes_text.s = T_both
    /\ db[1][1].changes = m2m("tags", "add", PyList(<<s_x>>))

====
